---- MODULE Spec2Model ----
(***************************************************************************)
(* State-machine model of the campus portal (app.py, models.py): session   *)
(* guards, admin/student registration and login, the item catalog and the  *)
(* resume upload / approval workflow.  One action per route handler.       *)
(*                                                                         *)
(* Text values are sequences of one-character strings, so that strip(),    *)
(* lower() and rsplit() are computed rather than assumed.                  *)
(***************************************************************************)
EXTENDS Integers, Sequences, FiniteSets, TLC

VARIABLES
    admins,        \* table admins: records [id, username, password_hash]
    students,      \* table students: records [id, username, email, password_hash]
    applications,  \* table applications
    items,         \* table items: records [id, title, description, created_at]
    item_seq,      \* last primary key handed out for items
    uploads,       \* names of the files under static/uploads
    session,       \* the browser session: a dict from marker name to id
    now,           \* the value datetime.utcnow() returns
    resp           \* the response to the last request, with the request's method and route

db == <<admins, students, applications, items, item_seq, uploads>>
vars == <<admins, students, applications, items, item_seq, uploads, session, now, resp>>

----------------------------------------------------------------------------
(* Bounds of the model *)

MaxAdmins == 2
MaxStudents == 2
MaxApplications == 2
MaxItems == 2
MaxTime == 1
\* bounds of the whole-portal specification
PortalMaxApplications == 1
PortalMaxItems == 1
\* bounds of the catalog specification, which needs more than one page
ListMaxItems == 7
ListMaxTime == 2
\* at most this many items are created within one clock tick
MaxPerTick == 3

----------------------------------------------------------------------------
(* Python values *)

\* None, told apart from every sequence of characters
None == <<"None">>
\* SQL NULL in a DateTime column
NullTime == -1
\* an empty dict
EmptyDict == [k \in {} |-> 0]

IsSpace(c) == c = " "

RECURSIVE lstrip(_)
lstrip(s) == IF s # <<>> /\ IsSpace(Head(s)) THEN lstrip(Tail(s)) ELSE s

RECURSIVE rstrip(_)
rstrip(s) ==
    IF s # <<>> /\ IsSpace(s[Len(s)]) THEN rstrip(SubSeq(s, 1, Len(s) - 1)) ELSE s

\* str.strip()
strip(s) == rstrip(lstrip(s))

\* request.form.get(k) or ""
GetOrEmpty(form, k) == IF k \in DOMAIN form THEN form[k] ELSE <<>>

\* mutant: the field is read without .strip()
FormTextUnstripped(form, k) == GetOrEmpty(form, k)

\* (request.form.get(k) or "").strip()
FormText(form, k) == strip(GetOrEmpty(form, k))

\* x or None, for a string x
OrNone(s) == IF s = <<>> THEN None ELSE s

----------------------------------------------------------------------------
(* Responses *)

NoResponse == [method |-> "", route |-> "", status |-> 0, view |-> "", flash |-> "", ctx |-> EmptyDict]

Render(method, route, template, flash, ctx) ==
    [method |-> method, route |-> route, status |-> 200, view |-> template, flash |-> flash, ctx |-> ctx]

Redirect(method, route, endpoint, flash) ==
    [method |-> method, route |-> route, status |-> 302, view |-> endpoint, flash |-> flash, ctx |-> EmptyDict]

\* get_or_404 -> the 404 error handler
NotFound(method, route) ==
    [method |-> method, route |-> route, status |-> 404, view |-> "404.html", flash |-> "", ctx |-> EmptyDict]

\* an exception escaping the handler: Flask answers 500
ServerError(method, route) ==
    [method |-> method, route |-> route, status |-> 500, view |-> "", flash |-> "", ctx |-> EmptyDict]

----------------------------------------------------------------------------
(* Session *)

\* session.get(k) is truthy
Logged(k) == k \in DOMAIN session /\ session[k] # 0

\* session.pop(k, None)
Pop(k) == [x \in DOMAIN session \ {k} |-> session[x]]

\* mutant: the marker is set without session.clear()
SetWithoutClear(k, v) == (k :> v) @@ session

\* session.clear(); session[k] = v
ClearAndSet(k, v) == (k :> v)

\* mutant: the decorator runs the handler without looking at the session
admin_login_not_required(method, route, body) == body

\* the decorator admin_login_required around the handler `body` of `route`
admin_login_required(method, route, body) ==
    IF ~Logged("admin_id")
    THEN /\ resp' = Redirect(method, route, "admin_login", "Please log in as admin.")
         /\ UNCHANGED <<db, session, now>>
    ELSE body

\* the decorator student_login_required around the handler `body` of `route`
student_login_required(method, route, body) ==
    IF ~Logged("student_id")
    THEN /\ resp' = Redirect(method, route, "student_login", "Please log in as a student.")
         /\ UNCHANGED <<db, session, now>>
    ELSE body

----------------------------------------------------------------------------
(* Identity store *)

\* Admin.set_password / Student.set_password: a one-way hash of the password
set_password(password) == <<"#">> \o password

\* Admin.check_password / Student.check_password
check_password(user, password) == user.password_hash = set_password(password)

\* mutant: the lookup never finds a row
TakenNever(rows, column, value) == FALSE

\* Model.query.filter_by(column=value).first() is not None
Taken(rows, column, value) == \E r \in rows : r[column] = value

\* mutant: the login is refused for an unknown username only
LoginRefusedUnknownOnly(found, password) == found = {}

\* not user or not user.check_password(password), for the rows `found` under the username
LoginRefused(found, password) ==
    found = {} \/ ~check_password(CHOOSE u \in found : TRUE, password)

admin_register(method, form) ==
    /\ UNCHANGED <<students, applications, items, item_seq, uploads, session, now>>
    /\ IF method # "POST"
       THEN /\ resp' = Render(method, "admin_register", "admin_register.html", "", EmptyDict)
            /\ UNCHANGED admins
       ELSE IF ~({"username", "password"} \subseteq DOMAIN form)
       THEN /\ resp' = ServerError(method, "admin_register")
            /\ UNCHANGED admins
       ELSE LET username == strip(form.username)
                password == strip(form.password)
            IN  IF username = <<>> \/ password = <<>>
                THEN /\ resp' = Render(method, "admin_register", "admin_register.html",
                                       "Username and password required.", EmptyDict)
                     /\ UNCHANGED admins
                ELSE IF Taken(admins, "username", username)
                THEN /\ resp' = Render(method, "admin_register", "admin_register.html",
                                       "Username already taken.", EmptyDict)
                     /\ UNCHANGED admins
                ELSE /\ admins' = admins \cup
                            {[id |-> Cardinality(admins) + 1,
                              username |-> username,
                              password_hash |-> set_password(password)]}
                     /\ resp' = Redirect(method, "admin_register", "admin_login",
                                         "Admin registered successfully.")

admin_login(method, form) ==
    /\ UNCHANGED <<db, now>>
    /\ IF method # "POST"
       THEN /\ resp' = Render(method, "admin_login", "admin_login.html", "", EmptyDict)
            /\ UNCHANGED session
       ELSE IF ~({"username", "password"} \subseteq DOMAIN form)
       THEN /\ resp' = ServerError(method, "admin_login")
            /\ UNCHANGED session
       ELSE LET username == strip(form.username)
                password == strip(form.password)
                found == {a \in admins : a.username = username}
            IN  IF LoginRefused(found, password)
                THEN /\ resp' = Render(method, "admin_login", "admin_login.html",
                                       "Invalid username or password.", EmptyDict)
                     /\ UNCHANGED session
                ELSE /\ session' = ClearAndSet("admin_id", (CHOOSE a \in found : TRUE).id)
                     /\ resp' = Redirect(method, "admin_login", "index", "Logged in successfully.")

\* mutant: /admin/logout behind the admin guard
logout_guarded ==
    admin_login_required("GET", "logout",
        /\ session' = Pop("admin_id")
        /\ resp' = Redirect("GET", "logout", "index", "Logged out.")
        /\ UNCHANGED <<db, now>>)

logout ==
    /\ session' = Pop("admin_id")
    /\ resp' = Redirect("GET", "logout", "index", "Logged out.")
    /\ UNCHANGED <<db, now>>

student_register(method, form) ==
    /\ UNCHANGED <<admins, applications, items, item_seq, uploads, session, now>>
    /\ IF method # "POST"
       THEN /\ resp' = Render(method, "student_register", "student_register.html", "", EmptyDict)
            /\ UNCHANGED students
       ELSE IF ~({"username", "email", "password"} \subseteq DOMAIN form)
       THEN /\ resp' = ServerError(method, "student_register")
            /\ UNCHANGED students
       ELSE LET username == strip(form.username)
                email == strip(form.email)
                password == strip(form.password)
            IN  IF username = <<>> \/ email = <<>> \/ password = <<>>
                THEN /\ resp' = Render(method, "student_register", "student_register.html",
                                       "All fields are required.", EmptyDict)
                     /\ UNCHANGED students
                ELSE IF \/ Taken(students, "username", username)
                        \/ Taken(students, "email", email)
                THEN /\ resp' = Render(method, "student_register", "student_register.html",
                                       "Username or email already taken.", EmptyDict)
                     /\ UNCHANGED students
                ELSE /\ students' = students \cup
                            {[id |-> Cardinality(students) + 1,
                              username |-> username,
                              email |-> email,
                              password_hash |-> set_password(password)]}
                     /\ resp' = Redirect(method, "student_register", "student_login",
                                         "Registered successfully. Please login.")

student_login(method, form) ==
    /\ UNCHANGED <<db, now>>
    /\ IF method # "POST"
       THEN /\ resp' = Render(method, "student_login", "student_login.html", "", EmptyDict)
            /\ UNCHANGED session
       ELSE IF ~({"username", "password"} \subseteq DOMAIN form)
       THEN /\ resp' = ServerError(method, "student_login")
            /\ UNCHANGED session
       ELSE LET username == strip(form.username)
                password == strip(form.password)
                found == {s \in students : s.username = username}
            IN  IF LoginRefused(found, password)
                THEN /\ resp' = Render(method, "student_login", "student_login.html",
                                       "Invalid username or password.", EmptyDict)
                     /\ UNCHANGED session
                ELSE /\ session' = ClearAndSet("student_id", (CHOOSE s \in found : TRUE).id)
                     /\ resp' = Redirect(method, "student_login", "student_dashboard",
                                         "Logged in successfully.")

student_logout ==
    /\ session' = Pop("student_id")
    /\ resp' = Redirect("GET", "student_logout", "index", "Logged out.")
    /\ UNCHANGED <<db, now>>

----------------------------------------------------------------------------
(* Resume upload and the application store *)

ALLOWED_EXTENSIONS == {<<"p", "d", "f">>, <<"d", "o", "c">>, <<"d", "o", "c", "x">>}

\* str.lower(), on the letters the model uses
LowerOf == [P |-> "p", D |-> "d", F |-> "f", O |-> "o", C |-> "c", X |-> "x", R |-> "r"]

lower(s) == [i \in 1..Len(s) |-> IF s[i] \in DOMAIN LowerOf THEN LowerOf[s[i]] ELSE s[i]]

\* filename.rsplit(".", 1)[1], for a filename that holds a "."
AfterLastDot(s) ==
    LET last == CHOOSE i \in 1..Len(s) : s[i] = "." /\ \A j \in (i + 1)..Len(s) : s[j] # "."
    IN  SubSeq(s, last + 1, Len(s))

\* mutant: the text between the first and the second "." is taken as the extension
allowed_file_first_extension(filename) ==
    /\ \E i \in 1..Len(filename) : filename[i] = "."
    /\ LET first == CHOOSE i \in 1..Len(filename) :
                        filename[i] = "." /\ \A j \in 1..(i - 1) : filename[j] # "."
           rest == SubSeq(filename, first + 1, Len(filename))
           stop == IF \E i \in 1..Len(rest) : rest[i] = "."
                   THEN (CHOOSE i \in 1..Len(rest) :
                            rest[i] = "." /\ \A j \in 1..(i - 1) : rest[j] # ".") - 1
                   ELSE Len(rest)
       IN  lower(SubSeq(rest, 1, stop)) \in ALLOWED_EXTENSIONS

allowed_file(filename) ==
    /\ \E i \in 1..Len(filename) : filename[i] = "."
    /\ lower(AfterLastDot(filename)) \in ALLOWED_EXTENSIONS

\* werkzeug.utils.secure_filename: path separators become blanks, runs of
\* blanks become one "_", characters outside [A-Za-z0-9_.-] are dropped and
\* leading and trailing "." and "_" are stripped
SepToSpace(s) == [i \in 1..Len(s) |-> IF s[i] \in {"/", "\\"} THEN " " ELSE s[i]]

RECURSIVE JoinWords(_)
JoinWords(s) ==
    LET t == lstrip(s)
    IN  IF t = <<>> THEN <<>>
        ELSE IF \E i \in 1..Len(t) : IsSpace(t[i])
        THEN LET cut == CHOOSE i \in 1..Len(t) :
                            IsSpace(t[i]) /\ \A j \in 1..(i - 1) : ~IsSpace(t[j])
                 tail == JoinWords(SubSeq(t, cut, Len(t)))
             IN  IF tail = <<>> THEN SubSeq(t, 1, cut - 1)
                 ELSE SubSeq(t, 1, cut - 1) \o <<"_">> \o tail
        ELSE t

UnsafeChars == {"<", ">", ":", "?", "*", "|", "\""}

KeepSafe(s) == SelectSeq(s, LAMBDA c : c \notin UnsafeChars)

RECURSIVE StripDots(_)
StripDots(s) ==
    IF s # <<>> /\ Head(s) \in {".", "_"} THEN StripDots(Tail(s))
    ELSE IF s # <<>> /\ s[Len(s)] \in {".", "_"} THEN StripDots(SubSeq(s, 1, Len(s) - 1))
    ELSE s

secure_filename(filename) == StripDots(KeepSafe(JoinWords(SepToSpace(filename))))

\* Application(student_id=..., resume_filename=...), as the database stores it:
\* status defaults to "Pending", created_at to the current time, approved_at to NULL
Application(student_id, resume_filename) ==
    [id |-> Cardinality(applications) + 1,
     student_id |-> student_id,
     resume_filename |-> resume_filename,
     status |-> "Pending",
     created_at |-> now,
     approved_at |-> NullTime]

upload_resume_body(method, files) ==
    LET found == {s \in students : s.id = session["student_id"]}
        ctx == [student |-> found]
    IN  /\ UNCHANGED <<admins, students, items, item_seq, session, now>>
        /\ IF method # "POST"
           THEN /\ resp' = Render(method, "upload_resume", "upload_resume.html", "", ctx)
                /\ UNCHANGED <<applications, uploads>>
           ELSE IF "resume" \notin DOMAIN files
           THEN /\ resp' = Redirect(method, "upload_resume", "upload_resume", "No file part.")
                /\ UNCHANGED <<applications, uploads>>
           ELSE IF files["resume"] = <<>>
           THEN /\ resp' = Redirect(method, "upload_resume", "upload_resume", "No selected file.")
                /\ UNCHANGED <<applications, uploads>>
           ELSE IF allowed_file(files["resume"])
           THEN LET filename == secure_filename(files["resume"])
                IN  /\ uploads' = uploads \cup {filename}
                    /\ IF found = {}
                       THEN /\ resp' = ServerError(method, "upload_resume")
                            /\ UNCHANGED applications
                       ELSE /\ applications' = applications \cup
                                   {Application((CHOOSE s \in found : TRUE).id, filename)}
                            /\ resp' = Redirect(method, "upload_resume", "student_dashboard",
                                                "Resume uploaded successfully.")
           ELSE /\ resp' = Render(method, "upload_resume", "upload_resume.html", "", ctx)
                /\ UNCHANGED <<applications, uploads>>

upload_resume(method, files) ==
    student_login_required(method, "upload_resume", upload_resume_body(method, files))

student_dashboard_body ==
    LET found == {s \in students : s.id = session["student_id"]}
    IN  /\ UNCHANGED <<db, session, now>>
        /\ resp' = IF found = {} THEN ServerError("GET", "student_dashboard")
                   ELSE Render("GET", "student_dashboard", "student_dashboard.html", "",
                               [student |-> found,
                                applications |->
                                    {a \in applications :
                                        a.student_id = (CHOOSE s \in found : TRUE).id}])

student_dashboard == student_login_required("GET", "student_dashboard", student_dashboard_body)

\* query.order_by(created_at.desc()): every row order the database may return;
\* rows with equal created_at come in an order the query does not fix
RECURSIVE OrderByCreatedDesc(_)
OrderByCreatedDesc(rows) ==
    IF rows = {} THEN {<<>>}
    ELSE LET newest == {x \in rows : \A y \in rows : y.created_at <= x.created_at}
         IN  UNION {{<<x>> \o rest : rest \in OrderByCreatedDesc(rows \ {x})} : x \in newest}

admin_view_applications_body ==
    /\ UNCHANGED <<db, session, now>>
    /\ \E rows \in OrderByCreatedDesc(applications) :
           resp' = Render("GET", "admin_view_applications", "admin_applications.html", "",
                          [applications |-> rows])

admin_view_applications ==
    admin_login_required("GET", "admin_view_applications", admin_view_applications_body)

\* mutant: the status is set, the timestamp is not
ApproveWithoutStamp(a) == [a EXCEPT !.status = "Approved"]

\* app_record.status = "Approved"; app_record.approved_at = datetime.utcnow()
Approve(a) == [a EXCEPT !.status = "Approved", !.approved_at = now]

\* mutant: every application is approved, not only the one asked for
approve_every_application(app_id) ==
    LET found == {a \in applications : a.id = app_id}
    IN  /\ UNCHANGED <<admins, students, items, item_seq, uploads, session, now>>
        /\ IF found = {}
           THEN /\ resp' = NotFound("POST", "approve_application")
                /\ UNCHANGED applications
           ELSE /\ applications' = {Approve(a) : a \in applications}
                /\ resp' = Redirect("POST", "approve_application", "admin_view_applications",
                                    "Application approved.")

approve_application_body(app_id) ==
    LET found == {a \in applications : a.id = app_id}
    IN  /\ UNCHANGED <<admins, students, items, item_seq, uploads, session, now>>
        /\ IF found = {}
           THEN /\ resp' = NotFound("POST", "approve_application")
                /\ UNCHANGED applications
           ELSE /\ applications' =
                       {IF a.id = app_id THEN Approve(a) ELSE a : a \in applications}
                /\ resp' = Redirect("POST", "approve_application", "admin_view_applications",
                                    "Application approved.")

approve_application(app_id) ==
    admin_login_required("POST", "approve_application", approve_application_body(app_id))

----------------------------------------------------------------------------
(* Catalog *)

per_page == 6

DigitOf == ("0" :> 0) @@ ("1" :> 1) @@ ("2" :> 2) @@ ("3" :> 3) @@ ("4" :> 4) @@
           ("5" :> 5) @@ ("6" :> 6) @@ ("7" :> 7) @@ ("8" :> 8) @@ ("9" :> 9)

IsDigits(s) == s # <<>> /\ \A i \in 1..Len(s) : s[i] \in DOMAIN DigitOf

RECURSIVE DigitsValue(_)
DigitsValue(s) ==
    IF s = <<>> THEN 0 ELSE 10 * DigitsValue(SubSeq(s, 1, Len(s) - 1)) + DigitOf[s[Len(s)]]

\* request.args.get("page", 1, type=int): the default when the argument is
\* missing or int() rejects it
PageArg(args) ==
    IF "page" \notin DOMAIN args THEN 1
    ELSE LET t == strip(args["page"])
         IN  IF IsDigits(t) THEN DigitsValue(t)
             ELSE IF t # <<>> /\ Head(t) = "-" /\ IsDigits(Tail(t)) THEN 0 - DigitsValue(Tail(t))
             ELSE IF t # <<>> /\ Head(t) = "+" /\ IsDigits(Tail(t)) THEN DigitsValue(Tail(t))
             ELSE 1

Min(a, b) == IF a <= b THEN a ELSE b

\* paginate(page, per_page, error_out=False) for the row order `rows`: a page
\* below 1 is read as page 1, the items are LIMIT per_page OFFSET (page - 1) * per_page
paginate(rows, page) ==
    LET p == IF page < 1 THEN 1 ELSE page
    IN  [page |-> p,
         items |-> SubSeq(rows, (p - 1) * per_page + 1, Min(p * per_page, Len(rows)))]

index(args) ==
    /\ UNCHANGED <<db, session, now>>
    /\ \E rows \in OrderByCreatedDesc(items) :
           resp' = Render("GET", "index", "list.html", "",
                          [items |-> paginate(rows, PageArg(args))])

detail(item_id) ==
    LET found == {i \in items : i.id = item_id}
    IN  /\ UNCHANGED <<db, session, now>>
        /\ resp' = IF found = {} THEN NotFound("GET", "detail")
                   ELSE Render("GET", "detail", "detail.html", "", [item |-> CHOOSE i \in found : TRUE])

create_body(method, form) ==
    /\ UNCHANGED <<admins, students, applications, uploads, session, now>>
    /\ IF method # "POST"
       THEN /\ resp' = Render(method, "create", "create.html", "",
                              [title |-> <<>>, description |-> <<>>])
            /\ UNCHANGED <<items, item_seq>>
       ELSE LET title == FormText(form, "title")
                description == OrNone(FormText(form, "description"))
            IN  IF title = <<>>
                THEN /\ resp' = Render(method, "create", "create.html", "Title is required.",
                                       [title |-> title, description |-> description])
                     /\ UNCHANGED <<items, item_seq>>
                ELSE /\ item_seq' = item_seq + 1
                     /\ items' = items \cup
                            {[id |-> item_seq + 1, title |-> title,
                              description |-> description, created_at |-> now]}
                     /\ resp' = Redirect(method, "create", "index", "Item created successfully.")

create(method, form) == admin_login_required(method, "create", create_body(method, form))

edit_body(item_id, method, form) ==
    LET found == {i \in items : i.id = item_id}
        item == CHOOSE i \in found : TRUE
    IN  /\ UNCHANGED <<admins, students, applications, item_seq, uploads, session, now>>
        /\ IF found = {}
           THEN /\ resp' = NotFound(method, "edit")
                /\ UNCHANGED items
           ELSE IF method # "POST"
           THEN /\ resp' = Render(method, "edit", "edit.html", "",
                                  [item |-> item, title |-> item.title,
                                   description |-> IF item.description = None THEN <<>>
                                                   ELSE item.description])
                /\ UNCHANGED items
           ELSE LET title == FormText(form, "title")
                    description == OrNone(FormText(form, "description"))
                IN  IF title = <<>>
                    THEN /\ resp' = Render(method, "edit", "edit.html", "Title is required.",
                                           [item |-> item, title |-> title,
                                            description |-> description])
                         /\ UNCHANGED items
                    ELSE /\ items' = (items \ {item}) \cup
                                {[item EXCEPT !.title = title, !.description = description]}
                         /\ resp' = Redirect(method, "edit", "detail", "Item updated.")

edit(item_id, method, form) ==
    admin_login_required(method, "edit", edit_body(item_id, method, form))

delete_body(item_id) ==
    LET found == {i \in items : i.id = item_id}
    IN  /\ UNCHANGED <<admins, students, applications, item_seq, uploads, session, now>>
        /\ IF found = {}
           THEN /\ resp' = NotFound("POST", "delete")
                /\ UNCHANGED items
           ELSE /\ items' = items \ found
                /\ resp' = Redirect("POST", "delete", "index", "Item deleted.")

delete(item_id) == admin_login_required("POST", "delete", delete_body(item_id))

----------------------------------------------------------------------------
(* The clock *)

Tick ==
    /\ now' = now + 1
    /\ UNCHANGED <<db, session, resp>>

----------------------------------------------------------------------------
(* Specifications *)

Init ==
    /\ admins = {}
    /\ students = {}
    /\ applications = {}
    /\ items = {}
    /\ item_seq = 0
    /\ uploads = {}
    /\ session = EmptyDict
    /\ now = 0
    /\ resp = NoResponse

Methods == {"GET", "POST"}

\* the requests of the whole portal, over a small alphabet
Credentials ==
    {[username |-> <<"a">>, password |-> <<"p">>],
     [username |-> <<"a">>, password |-> <<"q">>]}

StudentForms ==
    {[username |-> <<"s">>, email |-> <<"e">>, password |-> <<"p">>]}

Filenames == {<<"r", ".", "p", "d", "f">>, <<"r", ".", "e", "x", "e">>}

ItemForms == {[title |-> <<"t">>], [title |-> <<" ">>]}

\* every route of the portal, over a small alphabet of requests; the clock
\* stands still here, the upload and the listing specifications move it
Next ==
    \/ admin_register("GET", EmptyDict)
    \/ \E f \in Credentials :
           admin_register("POST", f) /\ Cardinality(admins') <= MaxAdmins
    \/ admin_login("GET", EmptyDict)
    \/ \E f \in Credentials : admin_login("POST", f)
    \/ logout
    \/ student_register("GET", EmptyDict)
    \/ \E f \in StudentForms :
           student_register("POST", f) /\ Cardinality(students') <= MaxStudents
    \/ student_login("GET", EmptyDict)
    \/ \E f \in Credentials \cup StudentForms : student_login("POST", f)
    \/ student_logout
    \/ \E m \in Methods, fn \in Filenames :
           /\ upload_resume(m, [resume |-> fn])
           /\ Cardinality(applications') <= PortalMaxApplications
    \/ student_dashboard
    \/ admin_view_applications
    \/ \E id \in 1..(PortalMaxApplications + 1) : approve_application(id)
    \/ index(EmptyDict)
    \/ \E id \in 1..(PortalMaxItems + 1) : detail(id)
    \/ \E m \in Methods, f \in ItemForms : create(m, f) /\ item_seq' <= PortalMaxItems
    \/ \E id \in 1..(PortalMaxItems + 1), m \in Methods, f \in ItemForms : edit(id, m, f)
    \/ \E id \in 1..(PortalMaxItems + 1) : delete(id)

Spec == Init /\ [][Next]_vars

----------------------------------------------------------------------------
(* Identity only: registration, login and logout over richer forms *)

AuthUsernames == {<<"a">>, <<" ", "a">>, <<"b">>}
AuthPasswords == {<<"p">>, <<"q">>, <<"p", " ">>}
AuthEmails == {<<"e">>, <<"f">>, <<"e", " ">>}

\* well-formed forms, forms with a blank field and a form without a field
AdminAuthForms ==
    {[username |-> u, password |-> p] : u \in AuthUsernames, p \in AuthPasswords}
        \cup {[username |-> <<" ">>, password |-> <<"p">>],
              [username |-> <<"a">>, password |-> <<" ">>],
              [username |-> <<"a">>]}

StudentAuthForms ==
    {[username |-> u, email |-> e, password |-> <<"p">>] :
        u \in AuthUsernames, e \in AuthEmails}
        \cup {[username |-> <<" ">>, email |-> <<"e">>, password |-> <<"p">>],
              [username |-> <<"a">>, email |-> <<>>, password |-> <<"p">>],
              [username |-> <<"a">>, email |-> <<"e">>, password |-> <<" ">>],
              [username |-> <<"a">>, password |-> <<"p">>]}

NextAuth ==
    \/ admin_register("GET", EmptyDict)
    \/ \E f \in AdminAuthForms :
           admin_register("POST", f) /\ Cardinality(admins') <= MaxAdmins
    \/ admin_login("GET", EmptyDict)
    \/ \E f \in AdminAuthForms : admin_login("POST", f)
    \/ logout
    \/ student_register("GET", EmptyDict)
    \/ \E f \in StudentAuthForms :
           student_register("POST", f) /\ Cardinality(students') <= MaxStudents
    \/ student_login("GET", EmptyDict)
    \/ \E f \in AdminAuthForms : student_login("POST", f)
    \/ student_logout

SpecAuth == Init /\ [][NextAuth]_vars

----------------------------------------------------------------------------
(* Upload and approval over richer file names *)

UploadFilenames ==
    {<<"r", ".", "p", "d", "f">>,                  \* r.pdf
     <<".", ".", "/", "r", ".", "p", "d", "f">>,   \* ../r.pdf
     <<"r", ".", "D", "O", "C", "X">>,             \* r.DOCX
     <<"r", ".", "E", "X", "E">>,                  \* r.EXE
     <<"r">>,                                      \* r
     <<"r", ".">>,                                 \* r.
     <<"p", "d", "f">>,                            \* pdf
     <<"r", ".", "p", "d", "f", ".", "e", "x", "e">>,   \* r.pdf.exe
     <<"r", ".", "p", "d">>,                       \* r.pd
     <<"r", ".", "p", "d", "f", " ">>}             \* "r.pdf "

UploadFiles ==
    {EmptyDict, [resume |-> <<>>]} \cup {[resume |-> fn] : fn \in UploadFilenames}

OneCredential == [username |-> <<"a">>, password |-> <<"p">>]
OneStudent == [username |-> <<"s">>, email |-> <<"e">>, password |-> <<"p">>]

NextUpload ==
    \/ admin_register("POST", OneCredential)
    \/ admin_login("POST", OneCredential)
    \/ student_register("POST", OneStudent)
    \/ student_login("POST", OneStudent)
    \/ upload_resume("GET", EmptyDict)
    \/ \E files \in UploadFiles :
           upload_resume("POST", files) /\ Cardinality(applications') <= MaxApplications
    \/ \E id \in 1..(MaxApplications + 1) : approve_application(id)
    \/ Tick /\ now' <= MaxTime

SpecUpload == Init /\ [][NextUpload]_vars

----------------------------------------------------------------------------
(* Catalog editing over richer titles and descriptions *)

CatalogTitles == {<<>>, <<" ", " ">>, <<"t">>, <<" ", "t", " ">>, <<"t", " ", "u">>}
CatalogDescriptions == {<<" ">>, <<" ", "d">>}

CatalogForms ==
    {[title |-> t, description |-> d] : t \in CatalogTitles, d \in CatalogDescriptions}
        \cup {[title |-> <<"t">>], [title |-> <<" ">>], EmptyDict}

NextCatalog ==
    \/ admin_register("POST", OneCredential)
    \/ admin_login("POST", OneCredential)
    \/ logout
    \/ create("GET", EmptyDict)
    \/ \E f \in CatalogForms : create("POST", f) /\ item_seq' <= MaxItems
    \/ \E id \in 1..(MaxItems + 1) : edit(id, "GET", EmptyDict)
    \/ \E id \in 1..(MaxItems + 1), f \in CatalogForms : edit(id, "POST", f)
    \/ \E id \in 1..(MaxItems + 1) : delete(id)
    \/ \E id \in 1..(MaxItems + 1) : detail(id)

SpecCatalog == Init /\ [][NextCatalog]_vars

----------------------------------------------------------------------------
(* Listing: enough items for a second page *)

PageArgs ==
    {EmptyDict} \cup
    {[page |-> a] : a \in {<<"1">>, <<"2">>, <<"3">>, <<"0">>, <<"-", "1">>, <<"x">>, <<" ", "2">>}}

OneItem == [title |-> <<"t">>]

\* items created within the current clock tick
CreatedNow == {i \in items : i.created_at = now}

NextList ==
    \/ admin_register("POST", OneCredential)
    \/ admin_login("POST", OneCredential)
    \/ /\ Cardinality(CreatedNow) < MaxPerTick
       /\ create("POST", OneItem)
       /\ item_seq' <= ListMaxItems
    \/ \E id \in 1..ListMaxItems : delete(id)
    \/ \E a \in PageArgs : index(a)
    \/ Tick /\ now' <= ListMaxTime

SpecList == Init /\ [][NextList]_vars

----------------------------------------------------------------------------
(* Properties *)

AdminGuarded ==
    {"create", "edit", "delete", "admin_view_applications", "approve_application"}

StudentGuarded == {"upload_resume", "student_dashboard"}

\* C1: a request to a guarded route from a session without the role's marker
\* is answered by a redirect to that role's login page, and neither the
\* tables (Items, Applications, Admins, Students) nor the session change.
C1_GuardShortCircuits ==
    [][/\ (resp'.route \in AdminGuarded /\ ~Logged("admin_id")) =>
              /\ resp'.status = 302 /\ resp'.view = "admin_login"
              /\ UNCHANGED <<admins, students, applications, items, session>>
       /\ (resp'.route \in StudentGuarded /\ ~Logged("student_id")) =>
              /\ resp'.status = 302 /\ resp'.view = "student_login"
              /\ UNCHANGED <<admins, students, applications, items, session>>]_vars

\* C1 witness: a delete turned away by the admin guard while the catalog and
\* the application store hold rows it could have touched
C1_Witness ==
    /\ resp.route = "delete" /\ resp.view = "admin_login"
    /\ items # {} /\ applications # {}

\* C10: the session never holds admin_id and student_id together; after a
\* successful login the session holds that role's marker only, and a logout
\* removes its own role's marker and keeps the other.
C10_OneRolePerSession ==
    /\ [](~(Logged("admin_id") /\ Logged("student_id")))
    /\ [][/\ (resp'.route = "admin_login" /\ resp'.status = 302) =>
                 DOMAIN session' = {"admin_id"}
          /\ (resp'.route = "student_login" /\ resp'.status = 302) =>
                 DOMAIN session' = {"student_id"}
          /\ resp'.route = "logout" =>
                 /\ ~Logged("admin_id")'
                 /\ Logged("student_id") => Logged("student_id")' /\ session'["student_id"] = session["student_id"]
          /\ resp'.route = "student_logout" =>
                 /\ ~Logged("student_id")'
                 /\ Logged("admin_id") => Logged("admin_id")' /\ session'["admin_id"] = session["admin_id"]]_vars

\* C10 witness: /admin/logout was requested on a student's session, with an
\* admin registered, and the student marker is still there
C10_Witness ==
    /\ admins # {}
    /\ resp.route = "logout"
    /\ DOMAIN session = {"student_id"}

\* the form names a user of `rows` and the password passes that user's check
Correct(rows, form) ==
    /\ {"username", "password"} \subseteq DOMAIN form
    /\ \E u \in rows : /\ u.username = strip(form.username)
                       /\ check_password(u, strip(form.password))

\* C2: a registration whose username (for students: username or email) is
\* already in the table is answered by the form again and adds no row; no
\* two Admins share a username, no two Students a username or an email.
C2_NoDuplicateAccounts ==
    /\ [](/\ \A a, b \in admins : a.username = b.username => a = b
          /\ \A a, b \in students : (a.username = b.username \/ a.email = b.email) => a = b)
    /\ [][/\ resp'.route = "admin_register" =>
                 \A f \in AdminAuthForms :
                     (/\ {"username", "password"} \subseteq DOMAIN f
                      /\ \E a \in admins : a.username = strip(f.username)
                      /\ admin_register("POST", f))
                     => (admins' = admins /\ resp'.status = 200)
          /\ resp'.route = "student_register" =>
                 \A f \in StudentAuthForms :
                     (/\ {"username", "email", "password"} \subseteq DOMAIN f
                      /\ \E a \in students : \/ a.username = strip(f.username)
                                             \/ a.email = strip(f.email)
                      /\ student_register("POST", f))
                     => (students' = students /\ resp'.status = 200)]_vars

\* C2 witness: two students are registered and a third registration was
\* refused as a duplicate
C2_Witness ==
    /\ Cardinality(students) = 2
    /\ resp.route = "student_register"
    /\ resp.flash = "Username or email already taken."

\* C3: a login (admin or student) whose username is unknown or whose
\* password fails the check sets no marker: the session is left as it was,
\* so a session without markers stays without markers.
C3_FailedLoginSetsNoMarker ==
    [][/\ resp'.route = "admin_login" =>
              \A f \in AdminAuthForms :
                  (~Correct(admins, f) /\ admin_login("POST", f)) =>
                      /\ session' = session
                      /\ resp'.status # 302
       /\ resp'.route = "student_login" =>
              \A f \in AdminAuthForms :
                  (~Correct(students, f) /\ student_login("POST", f)) =>
                      /\ session' = session
                      /\ resp'.status # 302]_vars

\* C3 witness: an admin exists, a login was refused and the session holds
\* no marker
C3_Witness ==
    /\ admins # {}
    /\ resp.route = "admin_login"
    /\ resp.flash = "Invalid username or password."
    /\ session = EmptyDict

\* C8 as claimed: /admin/logout and /student/logout are behind the session
\* guard: without the role's marker the request is redirected to that
\* role's login page, with it the marker is cleared.
C8_LogoutGuarded ==
    [][/\ (resp'.route = "logout" /\ ~Logged("admin_id")) =>
              (resp'.status = 302 /\ resp'.view = "admin_login")
       /\ (resp'.route = "logout" /\ Logged("admin_id")) => ~Logged("admin_id")'
       /\ (resp'.route = "student_logout" /\ ~Logged("student_id")) =>
              (resp'.status = 302 /\ resp'.view = "student_login")
       /\ (resp'.route = "student_logout" /\ Logged("student_id")) =>
              ~Logged("student_id")']_vars

\* C8 amended: the logout routes are not guarded: from any session the
\* request removes that role's marker if present, keeps every other session
\* entry, changes no table and redirects to the index.
C8_LogoutUnguarded ==
    [][/\ resp'.route = "logout" =>
              /\ resp'.status = 302 /\ resp'.view = "index"
              /\ DOMAIN session' = DOMAIN session \ {"admin_id"}
              /\ \A k \in DOMAIN session' : session'[k] = session[k]
              /\ UNCHANGED <<admins, students, applications, items>>
       /\ resp'.route = "student_logout" =>
              /\ resp'.status = 302 /\ resp'.view = "index"
              /\ DOMAIN session' = DOMAIN session \ {"student_id"}
              /\ \A k \in DOMAIN session' : session'[k] = session[k]
              /\ UNCHANGED <<admins, students, applications, items>>]_vars

\* C8 witness: /admin/logout answered with the redirect to the index although
\* no admin exists, so the session cannot have held admin_id
C8_Witness ==
    /\ admins = {}
    /\ resp.route = "logout" /\ resp.status = 302 /\ resp.view = "index"

\* C4: every Application's status is Pending or Approved, approved_at is
\* set exactly when the status is Approved, and an Approved Application
\* stays Approved.
C4_StatusLifecycle ==
    /\ [](\A a \in applications :
              /\ a.status \in {"Pending", "Approved"}
              /\ (a.approved_at # NullTime) <=> (a.status = "Approved"))
    /\ [][\A a \in applications :
              a.status = "Approved" =>
                  \E b \in applications' : b.id = a.id /\ b.status = "Approved"]_vars

\* C4 witness: one Application approved, another still pending
C4_Witness ==
    /\ \E a \in applications : a.status = "Approved" /\ a.approved_at # NullTime
    /\ \E a \in applications : a.status = "Pending"

\* C5: approving an existing Application as a logged-in admin makes its
\* status Approved and its approved_at the current time and leaves every
\* other Application as it was; approving an identifier that is not in the
\* table answers 404 and changes no Application.
C5_ApproveOneApplication ==
    [][(resp'.route = "approve_application" /\ Logged("admin_id")) =>
           \A id \in 1..(MaxApplications + 1) :
               approve_application(id) =>
                   IF \E a \in applications : a.id = id
                   THEN /\ resp'.status = 302
                        /\ \E b \in applications' :
                               /\ b.id = id /\ b.status = "Approved"
                               /\ b.approved_at = now /\ b.approved_at # NullTime
                        /\ \A a \in applications : a.id # id => a \in applications'
                        /\ Cardinality(applications') = Cardinality(applications)
                   ELSE /\ resp'.status = 404
                        /\ applications' = applications]_vars

\* C5 witness: an approval went through while another Application stays pending
C5_Witness ==
    /\ resp.route = "approve_application" /\ resp.status = 302
    /\ resp.view = "admin_view_applications"
    /\ \E a \in applications : a.status = "Approved"
    /\ \E a \in applications : a.status = "Pending" /\ a.approved_at = NullTime

\* the file name ends in "." followed by an allowed extension, in any case
HasAllowedExtension(fn) ==
    \E e \in ALLOWED_EXTENSIONS :
        /\ Len(fn) > Len(e)
        /\ fn[Len(fn) - Len(e)] = "."
        /\ lower(SubSeq(fn, Len(fn) - Len(e) + 1, Len(fn))) = e

\* an upload the claim says must create nothing
RefusedUpload(files) ==
    \/ "resume" \notin DOMAIN files
    \/ files["resume"] = <<>>
    \/ ~HasAllowedExtension(files["resume"])

\* C6: a POST to /student/upload with no file part, an empty file name or a
\* file name whose extension is not pdf, doc or docx (in any case; no
\* extension included) creates no Application and stores no file.
C6_RefusedUploadCreatesNothing ==
    [][(resp'.route = "upload_resume" /\ resp'.method = "POST") =>
           \A files \in UploadFiles :
               (RefusedUpload(files) /\ upload_resume("POST", files)) =>
                   /\ applications' = applications
                   /\ uploads' = uploads
                   /\ resp'.view # "student_dashboard"]_vars

\* C6 witness: a logged-in student's POST fell through the extension check
\* (the form is rendered again without a message) with an Application on file
C6_Witness ==
    /\ resp.route = "upload_resume" /\ resp.method = "POST"
    /\ resp.status = 200 /\ resp.view = "upload_resume.html"
    /\ applications # {}

\* every character of the text is a blank (the empty text included)
AllBlank(t) == \A k \in 1..Len(t) : t[k] = " "

\* the text without its leading and trailing blanks
Trimmed(t) ==
    IF AllBlank(t) THEN <<>>
    ELSE LET i == CHOOSE i \in 1..Len(t) : t[i] # " " /\ \A k \in 1..(i - 1) : t[k] = " "
             j == CHOOSE j \in 1..Len(t) : t[j] # " " /\ \A k \in (j + 1)..Len(t) : t[k] = " "
         IN  SubSeq(t, i, j)

NonEmptyTitles == \A i \in items : i.title # <<>> /\ ~AllBlank(i.title)

\* C7 as claimed: a create with an empty or whitespace-only title persists
\* nothing and shows the same input again; an edit with such a title changes
\* nothing; every stored Item has a non-empty title.
C7_BlankTitleRedisplaysInput ==
    /\ []NonEmptyTitles
    /\ [][/\ (resp'.route = "create" /\ resp'.method = "POST" /\ Logged("admin_id")) =>
                 \A f \in CatalogForms :
                     (AllBlank(GetOrEmpty(f, "title")) /\ create("POST", f)) =>
                         /\ items' = items
                         /\ resp'.view = "create.html"
                         /\ resp'.ctx.title = GetOrEmpty(f, "title")
                         /\ resp'.ctx.description = GetOrEmpty(f, "description")
          /\ (resp'.route = "edit" /\ resp'.method = "POST" /\ Logged("admin_id")) =>
                 \A f \in CatalogForms, id \in 1..(MaxItems + 1) :
                     (AllBlank(GetOrEmpty(f, "title")) /\ edit(id, "POST", f)) =>
                         items' = items]_vars

\* C7 amended: a create with an empty or whitespace-only title persists
\* nothing and renders the form again with the stripped values: the title
\* empty, the description without its surrounding whitespace, or None when
\* it is blank or missing; an edit with such a title changes nothing; every
\* stored Item has a non-empty title.
C7_BlankTitleRedisplaysStripped ==
    /\ []NonEmptyTitles
    /\ [][/\ (resp'.route = "create" /\ resp'.method = "POST" /\ Logged("admin_id")) =>
                 \A f \in CatalogForms :
                     (AllBlank(GetOrEmpty(f, "title")) /\ create("POST", f)) =>
                         /\ items' = items
                         /\ resp'.view = "create.html"
                         /\ resp'.ctx.title = <<>>
                         /\ resp'.ctx.description =
                                IF AllBlank(GetOrEmpty(f, "description")) THEN None
                                ELSE Trimmed(f.description)
          /\ (resp'.route = "edit" /\ resp'.method = "POST" /\ Logged("admin_id")) =>
                 \A f \in CatalogForms, id \in 1..(MaxItems + 1) :
                     (AllBlank(GetOrEmpty(f, "title")) /\ edit(id, "POST", f)) =>
                         items' = items]_vars

\* C7 witness: a create was refused for its title, with an Item in the
\* catalog, and the description came back stripped
C7_Witness ==
    /\ resp.route = "create" /\ resp.flash = "Title is required."
    /\ resp.ctx.title = <<>> /\ resp.ctx.description = <<"d">>
    /\ items # {}

\* the page of the listing in the last response
Listed == resp.ctx.items.items

\* C9: the listing is ordered by created_at descending, page p (a page
\* below 1 read as 1) holds items 6(p-1)+1 .. 6p of that order, a page
\* beyond the last is an empty page answered 200, and the same store yields
\* the same page again, Items with equal created_at included.
C9_StableOrderedListing ==
    /\ [](resp.route = "index" =>
              LET p == resp.ctx.items.page
                  before == (p - 1) * per_page
                  n == Cardinality(items)
              IN  /\ resp.status = 200
                  /\ p >= 1
                  /\ Len(Listed) = IF n <= before THEN 0 ELSE Min(per_page, n - before)
                  /\ \A i \in 1..Len(Listed) : Listed[i] \in items
                  /\ \A i, j \in 1..Len(Listed) :
                         i < j => /\ Listed[i] # Listed[j]
                                  /\ Listed[i].created_at >= Listed[j].created_at
                  /\ \A i \in 1..Len(Listed) :
                         LET newer == {x \in items : x.created_at > Listed[i].created_at}
                             older == {x \in items : x.created_at < Listed[i].created_at}
                         IN  /\ Cardinality(newer) <= before + i - 1
                             /\ Cardinality(older) <= n - before - i)
    /\ [][(/\ resp.route = "index" /\ resp'.route = "index"
           /\ resp'.ctx.items.page = resp.ctx.items.page
           /\ items' = items)
          => resp'.ctx.items.items = resp.ctx.items.items]_vars

====
